---- MODULE Spec2Model ----
(***************************************************************************)
(* Gap/block detection and autoregressive gap filling of tide              *)
(* (src/tide/utils.py, src/tide/processing.py).                            *)
(*                                                                         *)
(* Timestamps are integers counted in a base time unit (one hour); a       *)
(* DatetimeIndex is a strictly increasing sequence of timestamps and a     *)
(* Timedelta is an integer number of base units.  A cell value is "nan"    *)
(* (missing), "v" (a value present in the input), "back" / "fore" (a model *)
(* prediction written in backcast / forecast mode), or "T" / "F" (a cell   *)
(* of a boolean series).                                                   *)
(***************************************************************************)
EXTENDS Integers, Sequences, FiniteSets, TLC

VARIABLES
    cols,       \* X.columns: sequence of column names
    index,      \* X.index: strictly increasing sequence of timestamps
    X,          \* X values: [column name -> [timestamp -> cell value]]
    args,       \* arguments of the calls made on X / constructor parameters
    out,        \* value returned (or exception raised) by the calls made
    pc,         \* position of the caller
    model_,     \* FillGapsAR.model_ ("unset" until fit succeeds)
    gaps,       \* local `gaps` of FillGapsAR.transform
    ci,         \* position of `for col in X` in FillGapsAR.transform
    npass,      \* passes of `while gaps[col]` made for the current column
    err,        \* exception that left the running operation, or "none"
    X0          \* the frame as it was passed to the operation

vars == <<cols, index, X, args, out, pc, model_, gaps, ci, npass, err, X0>>

----------------------------------------------------------------------------
(* Bounds *)

MaxT == 5       \* timestamps of a series lie in 0 .. MaxT-1
MaxThr == 2     \* duration thresholds are None or 1 .. MaxThr

(* None: an absent threshold (the default of the threshold parameters). *)
None == -1

Timestamps == 0 .. (MaxT - 1)
Thresholds == {None} \cup (1 .. MaxThr)

----------------------------------------------------------------------------
(* Sequences and sets *)

Min(S) == CHOOSE x \in S : \A y \in S : x <= y
Max(S) == CHOOSE x \in S : \A y \in S : x >= y
Range(s) == {s[i] : i \in DOMAIN s}

RECURSIVE SortedSeq(_)
SortedSeq(S) == IF S = {} THEN <<>>
                ELSE LET m == Min(S) IN <<m>> \o SortedSeq(S \ {m})

(* A column of the frame as a series: its index and its values. *)
Series(idx, val, isbool) == [idx |-> idx, val |-> val, isbool |-> isbool]

----------------------------------------------------------------------------
(* utils.get_freq_delta_or_min_time_interval *)

IndexDiffs(idx) == {idx[i + 1] - idx[i] : i \in 1 .. (Len(idx) - 1)}

(* DatetimeIndex.inferred_freq: the common step of a regular index of at   *)
(* least three timestamps, otherwise no frequency (0).                     *)
inferred_freq(idx) ==
    IF Len(idx) >= 3 /\ Cardinality(IndexDiffs(idx)) = 1
    THEN Min(IndexDiffs(idx))
    ELSE 0

(* A variant that takes the first difference of an index without          *)
(* frequency.                                                              *)
get_freq_delta_or_first_time_interval(idx) ==
    IF inferred_freq(idx) # 0
    THEN inferred_freq(idx)
    ELSE idx[2] - idx[1]

get_freq_delta_or_min_time_interval(idx) ==
    IF inferred_freq(idx) # 0
    THEN inferred_freq(idx)
    ELSE Min(IndexDiffs(idx))

----------------------------------------------------------------------------
(* utils.check_and_return_dt_index_df *)

(* What is passed as X: a Series or DataFrame with a DatetimeIndex, a       *)
(* Series or DataFrame with another index, or a value of another type      *)
(* (an array, a list).                                                     *)
Kinds == {"DatetimeFrame", "OtherIndexFrame", "NotAFrame"}

InvalidKinds == Kinds \ {"DatetimeFrame"}

(* A variant that does not look at the index. *)
check_and_return_dt_index_df_any_index(kind) ==
    IF kind = "NotAFrame" THEN "ValueError" ELSE "none"

(* The exception raised by the check, "none" when X is returned. *)
check_and_return_dt_index_df(kind) ==
    IF kind = "NotAFrame" THEN "ValueError"
    ELSE IF kind # "DatetimeFrame" THEN "ValueError"
    ELSE "none"

----------------------------------------------------------------------------
(* utils.get_series_bloc *)

(* data.asfreq(freq): re-index on the grid first, first+freq, ... <= last; *)
(* a grid point absent from the original index holds a missing value, and  *)
(* a boolean series that receives one is no longer of dtype bool.          *)
asfreq(s, freq) ==
    LET first == s.idx[1]
        last  == s.idx[Len(s.idx)]
        grid  == [k \in 1 .. ((last - first) \div freq + 1) |-> first + (k - 1) * freq]
        orig  == Range(s.idx)
    IN  [idx    |-> grid,
         val    |-> [t \in Range(grid) |-> IF t \in orig THEN s.val[t] ELSE "nan"],
         isbool |-> s.isbool /\ Range(grid) \subseteq orig]

(* A variant of filt that selects the valid grid points whatever is_null. *)
filt_valid_only(df, is_null) ==
    IF ~df.isbool
    THEN {t \in Range(df.idx) : df.val[t] # "nan"}
    ELSE {t \in Range(df.idx) : df.val[t] = "T"}

(* filt: the grid points of the requested classification (lines 240-243). *)
filt(df, is_null) ==
    IF ~df.isbool
    THEN {t \in Range(df.idx) : IF is_null THEN df.val[t] = "nan" ELSE df.val[t] # "nan"}
    ELSE {t \in Range(df.idx) : IF is_null THEN df.val[t] = "F" ELSE df.val[t] = "T"}

(* split_points: the positions (1-based, first one excluded) whose         *)
(* distance to the previous member differs from time_diff.min().           *)
split_points(idx) ==
    IF Len(idx) < 2 THEN {}
    ELSE LET time_diff_min == Min(IndexDiffs(idx))
         IN  {i \in 2 .. Len(idx) : idx[i] - idx[i - 1] # time_diff_min}

(* np.split(idx, split_points): the pieces of idx starting at position 1   *)
(* and at every split point; one (possibly empty) piece when there is no   *)
(* split point.                                                            *)
np_split(idx, sp) ==
    LET starts == SortedSeq({1} \cup sp)
    IN  [k \in 1 .. Len(starts) |->
            SubSeq(idx, starts[k],
                   IF k = Len(starts) THEN Len(idx) ELSE starts[k + 1] - 1)]

(* Duration without the sample width of the run. *)
Duration_span_only(blk, freq) == blk[Len(blk)] - blk[1]

(* One element of `durations` (line 249). *)
Duration(blk, freq) == blk[Len(blk)] - blk[1] + freq

(* _lower_bound with the inclusive inner comparison made strict. *)
_lower_bound_strict(d, bound, bound_inclusive, inner) ==
    CASE ~bound_inclusive /\ ~inner -> d < bound
      [] ~bound_inclusive /\ inner  -> d > bound
      [] bound_inclusive /\ ~inner  -> d <= bound
      [] bound_inclusive /\ inner   -> d > bound

_lower_bound(d, bound, bound_inclusive, inner) ==
    CASE ~bound_inclusive /\ ~inner -> d < bound
      [] ~bound_inclusive /\ inner  -> d > bound
      [] bound_inclusive /\ ~inner  -> d <= bound
      [] bound_inclusive /\ inner   -> d >= bound

(* _upper_bound with the inclusive outer comparison made strict. *)
_upper_bound_strict(d, bound, bound_inclusive, inner) ==
    CASE ~bound_inclusive /\ ~inner -> d > bound
      [] ~bound_inclusive /\ inner  -> d < bound
      [] bound_inclusive /\ ~inner  -> d > bound
      [] bound_inclusive /\ inner   -> d <= bound

_upper_bound(d, bound, bound_inclusive, inner) ==
    CASE ~bound_inclusive /\ ~inner -> d > bound
      [] ~bound_inclusive /\ inner  -> d < bound
      [] bound_inclusive /\ ~inner  -> d >= bound
      [] bound_inclusive /\ inner   -> d <= bound

lower_mask(d, lower_td_threshold, lower_bound_inclusive, select_inner) ==
    IF lower_td_threshold = None THEN TRUE
    ELSE _lower_bound(d, lower_td_threshold, lower_bound_inclusive, select_inner)

upper_mask(d, upper_td_threshold, upper_bound_inclusive, select_inner) ==
    IF upper_td_threshold = None THEN TRUE
    ELSE _upper_bound(d, upper_td_threshold, upper_bound_inclusive, select_inner)

mask(d, select_inner, lo, up, li, ui) ==
    IF select_inner
    THEN lower_mask(d, lo, li, select_inner) /\ upper_mask(d, up, ui, select_inner)
    ELSE lower_mask(d, lo, li, select_inner) \/ upper_mask(d, up, ui, select_inner)

RECURSIVE SelectSeq2(_, _, _, _, _, _, _)
(* [indices for indices, keep in zip(consecutive_indices, mask) if keep] *)
SelectSeq2(blocks, durs, select_inner, lo, up, li, ui) ==
    IF blocks = <<>> THEN <<>>
    ELSE (IF mask(Head(durs), select_inner, lo, up, li, ui)
          THEN <<Head(blocks)>> ELSE <<>>)
         \o SelectSeq2(Tail(blocks), Tail(durs), select_inner, lo, up, li, ui)

(* The value of a call: err is "none" and blocks the returned list, or err *)
(* names the exception raised.  freq, consecutive_indices and durations    *)
(* are the locals of the call.                                             *)
Raised(e) == [err |-> e, blocks |-> <<>>, freq |-> 0,
              consecutive_indices |-> <<>>, durations |-> <<>>]

get_series_bloc(date_series, is_null, select_inner, lo, up, li, ui) ==
    LET freq == get_freq_delta_or_min_time_interval(date_series.idx)
        df   == asfreq(date_series, freq)
        idx  == SortedSeq(filt(df, is_null))
        consecutive_indices == np_split(idx, split_points(idx))
    IN  IF idx = <<>>
        THEN Raised("IndexError")     \* idx[-1] of the single empty piece
        ELSE LET durations == [k \in DOMAIN consecutive_indices |->
                                   Duration(consecutive_indices[k], freq)]
             IN  [err    |-> "none",
                  blocks |-> SelectSeq2(consecutive_indices, durations,
                                        select_inner, lo, up, li, ui),
                  freq   |-> freq,
                  consecutive_indices |-> consecutive_indices,
                  durations |-> durations]

----------------------------------------------------------------------------
(* utils.get_data_blocks *)

(* The column `col` of the frame as a series. *)
Column(idx, Xv, col) == Series(idx, Xv[col], FALSE)

(* combined_series (line 351): True where neither "data_1" nor "data_2"    *)
(* is missing; a boolean series.                                           *)
combined_series(idx, Xv) ==
    Series(idx,
           [t \in Range(idx) |->
               IF Xv["data_1"][t] = "nan" \/ Xv["data_2"][t] = "nan" THEN "F" ELSE "T"],
           TRUE)

(* The value of a call: err is "none" and dict the returned dictionary     *)
(* (column name -> list of blocks), or err names the exception raised.     *)
get_data_blocks(columns, idx, Xv, is_null, select_inner, lo, up, li, ui, return_combination) ==
    LET bloc(col) == get_series_bloc(Column(idx, Xv, col), is_null, select_inner,
                                     lo, up, li, ui)
        comb      == get_series_bloc(combined_series(idx, Xv), is_null, select_inner,
                                     lo, up, li, ui)
    IN  IF \E col \in Range(columns) : bloc(col).err # "none"
        THEN [err |-> "IndexError", dict |-> <<>>]
        ELSE IF ~return_combination
        THEN [err |-> "none", dict |-> [col \in Range(columns) |-> bloc(col).blocks]]
        ELSE IF ~({"data_1", "data_2"} \subseteq Range(columns))
        THEN [err |-> "KeyError", dict |-> <<>>]
        ELSE IF comb.err # "none"
        THEN [err |-> "IndexError", dict |-> <<>>]
        ELSE [err |-> "none",
              dict |-> [col \in Range(columns) \cup {"combination"} |->
                           IF col = "combination" THEN comb.blocks
                           ELSE bloc(col).blocks]]

----------------------------------------------------------------------------
(* utils.get_outer_timestamps *)

(* A variant that takes the block's own first and last timestamps for     *)
(* earlier and later ones.                                                 *)
get_outer_timestamps_inclusive(idx, ref_index) ==
    LET before == {r \in Range(ref_index) : r <= idx[1]}
        after  == {r \in Range(ref_index) : r >= idx[Len(idx)]}
    IN  [out_start |-> IF before # {} THEN Max(before) ELSE ref_index[1],
         out_end   |-> IF after # {} THEN Min(after) ELSE ref_index[Len(ref_index)]]

get_outer_timestamps(idx, ref_index) ==
    LET before == {r \in Range(ref_index) : r < idx[1]}
        after  == {r \in Range(ref_index) : r > idx[Len(idx)]}
    IN  [out_start |-> IF before # {} THEN Max(before) ELSE ref_index[1],
         out_end   |-> IF after # {} THEN Min(after) ELSE ref_index[Len(ref_index)]]

----------------------------------------------------------------------------
(* utils.get_gaps_mask *)

Operators == {"GTE", "GT", "LTE", "LT"}

(* A variant that takes any other operator for "GTE". *)
get_gaps_mask_lenient(idx, val, operator, size) ==
    LET name == "data_1"
        Xv   == [c \in {name} |-> val]
        \* lower, upper, lower_threshold_inclusive, upper_threshold_inclusive
        kw   == CASE operator = "GTE" -> <<size, None, TRUE, TRUE>>
                  [] operator = "GT"  -> <<size, None, FALSE, TRUE>>
                  [] operator = "LTE" -> <<None, size, TRUE, TRUE>>
                  [] operator = "LT"  -> <<None, size, TRUE, FALSE>>
                  [] OTHER            -> <<size, None, TRUE, TRUE>>
        res  == IF kw = <<>>
                THEN [err |-> "ValueError", dict |-> <<>>]
                ELSE get_data_blocks(<<name>>, idx, Xv, TRUE, TRUE,
                                     kw[1], kw[2], kw[3], kw[4], FALSE)
    IN  IF res.err # "none"
        THEN [err |-> res.err, mask |-> <<>>]
        ELSE LET gaps_idx    == res.dict[name]
                 final_index == UNION {Range(gaps_idx[k]) : k \in DOMAIN gaps_idx}
             IN  [err |-> "none",
                  mask |-> [t \in Range(idx) |-> t \in final_index]]

(* The value of a call on the series (idx, val): err is "none" and mask    *)
(* the returned array (one entry per timestamp of the series), or err      *)
(* names the exception raised; the operator selects the keyword arguments  *)
(* of the call of get_data_blocks, or raises.                              *)
get_gaps_mask(idx, val, operator, size) ==
    LET name == "data_1"
        Xv   == [c \in {name} |-> val]
        \* lower, upper, lower_threshold_inclusive, upper_threshold_inclusive
        kw   == CASE operator = "GTE" -> <<size, None, TRUE, TRUE>>
                  [] operator = "GT"  -> <<size, None, FALSE, TRUE>>
                  [] operator = "LTE" -> <<None, size, TRUE, TRUE>>
                  [] operator = "LT"  -> <<None, size, TRUE, FALSE>>
                  [] OTHER            -> <<>>
        res  == IF kw = <<>>
                THEN [err |-> "ValueError", dict |-> <<>>]
                ELSE get_data_blocks(<<name>>, idx, Xv, TRUE, TRUE,
                                     kw[1], kw[2], kw[3], kw[4], FALSE)
    IN  IF res.err # "none"
        THEN [err |-> res.err, mask |-> <<>>]
        ELSE LET gaps_idx    == res.dict[name]
                 final_index == UNION {Range(gaps_idx[k]) : k \in DOMAIN gaps_idx}
             IN  [err |-> "none",
                  mask |-> [t \in Range(idx) |-> t \in final_index]]

----------------------------------------------------------------------------
(* Inputs *)

(* The time axes: strictly increasing, at least two timestamps, counted    *)
(* from the first timestamp of the series.                                 *)
IndexesUpTo(n) == {SortedSeq({0} \cup S) : S \in (SUBSET (1 .. (n - 1))) \ {{}}}

Indexes == IndexesUpTo(MaxT)



NotCalled == Raised("notcalled")

NoArgs == [select_inner |-> TRUE, lower |-> None, upper |-> None,
           li |-> TRUE, ui |-> TRUE, operator |-> "", size |-> None,
           model_name |-> ""]

----------------------------------------------------------------------------
(* Segmentation of one series: get_series_bloc is called on the series for *)
(* the valid runs and for the missing runs, with the same other arguments. *)

InitSeg ==
    /\ cols = <<"data_1">>
    /\ index \in Indexes
    /\ X \in [{"data_1"} -> [Range(index) -> {"nan", "v"}]]
    /\ \E si \in BOOLEAN, lo \in Thresholds, up \in Thresholds,
          li \in BOOLEAN, ui \in BOOLEAN :
          args = [NoArgs EXCEPT !.select_inner = si, !.lower = lo, !.upper = up,
                                !.li = li, !.ui = ui]
    /\ out = [b \in BOOLEAN |-> NotCalled]
    /\ pc = "seg"
    /\ model_ = "unset"
    /\ gaps = <<>>
    /\ ci = 0
    /\ npass = 0
    /\ err = "none"
    /\ X0 = X

Call_get_series_bloc(is_null) ==
    /\ pc = "seg"
    /\ out[is_null] = NotCalled
    /\ out' = [out EXCEPT ![is_null] =
                  get_series_bloc(Column(index, X, "data_1"), is_null,
                                  args.select_inner, args.lower, args.upper,
                                  args.li, args.ui)]
    /\ UNCHANGED <<cols, index, X, args, pc, model_, gaps, ci, npass, err, X0>>

NextSeg == \E is_null \in BOOLEAN : Call_get_series_bloc(is_null)

SpecSeg == InitSeg /\ [][NextSeg]_vars

----------------------------------------------------------------------------
(* Gap mask of one series: get_gaps_mask is called on the series.          *)

NotCalledMask == [err |-> "notcalled", mask |-> <<>>]

InitMask ==
    /\ cols = <<"data_1">>
    /\ index \in Indexes
    /\ X \in [{"data_1"} -> [Range(index) -> {"nan", "v"}]]
    /\ \E op \in Operators \cup {"EQ"}, size \in 1 .. MaxThr :
          args = [NoArgs EXCEPT !.operator = op, !.size = size]
    /\ out = NotCalledMask
    /\ pc = "mask"
    /\ model_ = "unset"
    /\ gaps = <<>>
    /\ ci = 0
    /\ npass = 0
    /\ err = "none"
    /\ X0 = X

Call_get_gaps_mask ==
    /\ pc = "mask"
    /\ out = NotCalledMask
    /\ out' = get_gaps_mask(index, X["data_1"], args.operator, args.size)
    /\ UNCHANGED <<cols, index, X, args, pc, model_, gaps, ci, npass, err, X0>>

NextMask == Call_get_gaps_mask

SpecMask == InitMask /\ [][NextMask]_vars

----------------------------------------------------------------------------
(* processing.FillGapsAR *)

(* The static model registry. *)
MODEL_MAP == [STL |-> "SkSTLForecast"]

(* The forecasting model: fit(training block) either fails or gives a      *)
(* model; predict gives one value per query timestamp, a backcast or a     *)
(* forecast according to the mode the model was built with.                *)
model_predict(backcast) == IF backcast THEN "back" ELSE "fore"

(* The first position c or later of a column whose gap list is not empty   *)
(* (`for col in X` skips the columns whose `while gaps[col]` is false at   *)
(* once); Len(cols) + 1 when the for loop is over.                         *)
RECURSIVE NextColumn(_, _, _)
NextColumn(columns, g, c) ==
    IF c > Len(columns) THEN c
    ELSE IF g[columns[c]] # <<>> THEN c
    ELSE NextColumn(columns, g, c + 1)

(* data_timedelta.index(max(data_timedelta)): the first block of maximal   *)
(* span block[-1] - block[0].                                              *)
biggest_group(data_blocks) ==
    LET data_timedelta == [k \in DOMAIN data_blocks |->
                              data_blocks[k][Len(data_blocks[k])] - data_blocks[k][1]]
        m == Max(Range(data_timedelta))
    IN  data_blocks[Min({k \in DOMAIN data_blocks : data_timedelta[k] = m})]

(* A variant in which the model is fitted on the whole column. *)
ModelCall_whole_column(Xc, biggest_grp, idx, backcast, fit_fails) ==
    [fit_on     |-> Xc,
     predict_at |-> idx,
     backcast   |-> backcast,
     raised     |-> fit_fails]

(* The use made of the model by one call of _fit_and_fill_x: the data it  *)
(* is fitted on (X.loc[biggest_group, col]), the timestamps it predicts    *)
(* at, its mode, and whether it raised.                                    *)
ModelCall(Xc, biggest_grp, idx, backcast, fit_fails) ==
    [fit_on     |-> [t \in Range(biggest_grp) |-> Xc[t]],
     predict_at |-> idx,
     backcast   |-> backcast,
     raised     |-> fit_fails]

(* A variant that swallows the exception of the model and returns without *)
(* writing.                                                                *)
_fit_and_fill_x_swallow(ref_index, Xc, biggest_grp, idx, backcast, fit_fails) ==
    LET call == ModelCall(Xc, biggest_grp, idx, backcast, fit_fails)
    IN  IF fit_fails
        THEN [err |-> "none", Xc |-> Xc, call |-> call]
        ELSE IF ~(Range(idx) \subseteq Range(ref_index))
        THEN [err |-> "KeyError", Xc |-> Xc, call |-> call]
        ELSE [err  |-> "none",
              Xc   |-> [t \in DOMAIN Xc |->
                           IF t \in Range(idx) THEN model_predict(backcast) ELSE Xc[t]],
              call |-> call]

(* _fit_and_fill_x: fit on the biggest group, predict and write at idx.    *)
(* fit_fails tells whether the model raises; the write X.loc[idx, col]     *)
(* raises KeyError when idx holds a label that is not in X.index.          *)
_fit_and_fill_x(ref_index, Xc, biggest_grp, idx, backcast, fit_fails) ==
    LET call == ModelCall(Xc, biggest_grp, idx, backcast, fit_fails)
    IN  IF fit_fails
        THEN [err |-> "ModelFitError", Xc |-> Xc, call |-> call]
        ELSE IF ~(Range(idx) \subseteq Range(ref_index))
        THEN [err |-> "KeyError", Xc |-> Xc, call |-> call]
        ELSE [err  |-> "none",
              Xc   |-> [t \in DOMAIN Xc |->
                           IF t \in Range(idx) THEN model_predict(backcast) ELSE Xc[t]],
              call |-> call]

(* for i, idx in enumerate(gaps[col]) (lines 1288-1294), from position i   *)
(* on: Xc is the column so far, del the indices_to_delete so far, calls the *)
(* model calls made so far in this pass and fail_at the rank of the call   *)
(* in which the model raises (0: none does).                               *)
RECURSIVE fill_loop(_, _, _, _, _, _, _, _, _, _)
fill_loop(ref_index, gaps_col, biggest_grp, start, end, i, Xc, del, calls, fail_at) ==
    IF i > Len(gaps_col)
    THEN [err |-> "none", Xc |-> Xc, del |-> del, calls |-> calls]
    ELSE LET idx == gaps_col[i]
         IN  IF start \in Range(idx) \/ end \in Range(idx)
             THEN LET r == _fit_and_fill_x(ref_index, Xc, biggest_grp, idx,
                                           start \in Range(idx),
                                           Len(calls) + 1 = fail_at)
                  IN  IF r.err # "none"
                      THEN [err |-> r.err, Xc |-> r.Xc, del |-> del,
                            calls |-> Append(calls, r.call)]
                      ELSE fill_loop(ref_index, gaps_col, biggest_grp, start, end, i + 1,
                                     r.Xc, del \cup {i}, Append(calls, r.call), fail_at)
             ELSE fill_loop(ref_index, gaps_col, biggest_grp, start, end, i + 1,
                            Xc, del, calls, fail_at)

(* A variant that empties the list as soon as one index is to be deleted. *)
RECURSIVE delete_indices_all(_, _, _)
delete_indices_all(gaps_col, del, i) ==
    IF i > Len(gaps_col) \/ del # {} THEN <<>>
    ELSE <<gaps_col[i]>> \o delete_indices_all(gaps_col, del, i + 1)

(* del gaps[col][i] for every i of indices_to_delete. *)
RECURSIVE delete_indices(_, _, _)
delete_indices(gaps_col, del, i) ==
    IF i > Len(gaps_col) THEN <<>>
    ELSE (IF i \in del THEN <<>> ELSE <<gaps_col[i]>>)
         \o delete_indices(gaps_col, del, i + 1)

(* No pass of the while loop has run yet. *)
NoPass == [biggest_group |-> <<>>, start |-> None, end |-> None, calls |-> <<>>]

(* The model names given to the constructor: the key of the registry and  *)
(* a name that is not a key.                                               *)
ModelNames == {"STL", "ARIMA"}

(* A FillGapsAR as constructed: the thresholds and the model name are set, *)
(* no frame has been passed yet.                                           *)
InitFill ==
    /\ cols = <<>>
    /\ index = <<>>
    /\ X = <<>>
    /\ \E lo \in Thresholds, up \in Thresholds, name \in ModelNames :
          args = [NoArgs EXCEPT !.lower = lo, !.upper = up, !.model_name = name]
    /\ out = NoPass
    /\ pc = "new"
    /\ model_ = "unset"
    /\ gaps = <<>>
    /\ ci = 0
    /\ npass = 0
    /\ err = "none"
    /\ X0 = <<>>

(* FillGapsAR.fit called on an X of the given kind. *)
fit(kind) ==
    /\ IF check_and_return_dt_index_df(kind) # "none"
       THEN /\ model_' = model_
            /\ pc' = "raised"
            /\ err' = check_and_return_dt_index_df(kind)
       ELSE IF args.model_name \in DOMAIN MODEL_MAP
       THEN /\ model_' = MODEL_MAP[args.model_name]
            /\ pc' = "fitted"
            /\ err' = "none"
       ELSE /\ model_' = model_
            /\ pc' = "raised"
            /\ err' = "KeyError"
    /\ UNCHANGED <<cols, index, X, args, out, gaps, ci, npass, X0>>

(* A variant of fit that takes the STL model for an unknown name. *)
Fit_default_model ==
    /\ pc = "new"
    /\ model_' = IF args.model_name \in DOMAIN MODEL_MAP
                 THEN MODEL_MAP[args.model_name] ELSE MODEL_MAP["STL"]
    /\ pc' = "fitted"
    /\ err' = "none"
    /\ UNCHANGED <<cols, index, X, args, out, gaps, ci, npass, X0>>

(* fit on a frame with a DatetimeIndex (fit does not read the values). *)
Fit ==
    /\ pc = "new"
    /\ fit("DatetimeFrame")

(* A variant of transform without the check that the instance is fitted. *)
transform_unchecked(kind, columns, idx, Xv) ==
    /\ LET g == get_data_blocks(columns, idx, Xv, TRUE, TRUE,
                                args.lower, args.upper, TRUE, TRUE, FALSE)
       IN  IF check_and_return_dt_index_df(kind) # "none"
           THEN /\ pc' = "raised" /\ err' = check_and_return_dt_index_df(kind)
                /\ UNCHANGED <<cols, index, X, X0, gaps, ci>>
           ELSE /\ cols' = columns /\ index' = idx /\ X' = Xv /\ X0' = Xv
                /\ IF g.err # "none"
                   THEN /\ pc' = "raised" /\ err' = g.err
                        /\ UNCHANGED <<gaps, ci>>
                   ELSE /\ gaps' = g.dict
                        /\ ci' = NextColumn(columns, g.dict, 1)
                        /\ pc' = IF ci' > Len(columns) THEN "done" ELSE "loop"
                        /\ err' = "none"
    /\ npass' = 0
    /\ UNCHANGED <<args, out, model_>>

(* FillGapsAR.transform called on an X of the given kind that holds the   *)
(* frame (columns, idx, Xv), up to the first test of `while gaps[col]`.    *)
transform(kind, columns, idx, Xv) ==
    /\ LET g == get_data_blocks(columns, idx, Xv, TRUE, TRUE,
                                args.lower, args.upper, TRUE, TRUE, FALSE)
       IN  IF model_ = "unset"
           THEN /\ pc' = "raised" /\ err' = "NotFittedError"
                /\ UNCHANGED <<cols, index, X, X0, gaps, ci>>
           ELSE IF check_and_return_dt_index_df(kind) # "none"
           THEN /\ pc' = "raised" /\ err' = check_and_return_dt_index_df(kind)
                /\ UNCHANGED <<cols, index, X, X0, gaps, ci>>
           ELSE /\ cols' = columns /\ index' = idx /\ X' = Xv /\ X0' = Xv
                /\ IF g.err # "none"
                   THEN /\ pc' = "raised" /\ err' = g.err
                        /\ UNCHANGED <<gaps, ci>>
                   ELSE /\ gaps' = g.dict
                        /\ ci' = NextColumn(columns, g.dict, 1)
                        /\ pc' = IF ci' > Len(columns) THEN "done" ELSE "loop"
                        /\ err' = "none"
    /\ npass' = 0
    /\ UNCHANGED <<args, out, model_>>

(* The frames passed to transform: one column on a time axis of up to MaxT *)
(* timestamps, or two columns on a time axis of up to MaxT - 1 timestamps. *)
TransformStart ==
    /\ pc \in {"new", "fitted"}
    /\ \E idx \in Indexes :
          \E Xv \in [{"data_1"} -> [Range(idx) -> {"nan", "v"}]] :
              transform("DatetimeFrame", <<"data_1">>, idx, Xv)

TransformStart2 ==
    /\ pc \in {"new", "fitted"}
    /\ \E idx \in IndexesUpTo(MaxT - 1) :
          \E Xv \in [{"data_1", "data_2"} -> [Range(idx) -> {"nan", "v"}]] :
              transform("DatetimeFrame", <<"data_1", "data_2">>, idx, Xv)

(* One pass of `while gaps[col]` (lines 1282-1297), up to the next test of *)
(* the loop condition; out keeps the biggest group, the outer timestamps   *)
(* and the model calls of the pass.                                        *)
Pass ==
    /\ pc = "loop"
    /\ npass < MaxT
    /\ LET col == cols[ci]
           db  == get_data_blocks(<<col>>, index, [c \in {col} |-> X[col]], FALSE, TRUE,
                                  None, None, TRUE, TRUE, FALSE)
       IN  IF db.err # "none"
           THEN /\ pc' = "raised" /\ err' = db.err
                /\ UNCHANGED <<X, out, gaps, ci, npass>>
           ELSE LET big   == biggest_group(db.dict[col])
                    outer == get_outer_timestamps(big, index)
                IN  \E fail_at \in 0 .. 2 :
                       LET r == fill_loop(index, gaps[col], big, outer.out_start,
                                          outer.out_end, 1, X[col], {}, <<>>, fail_at)
                       IN  /\ X' = [X EXCEPT ![col] = r.Xc]
                           /\ out' = [biggest_group |-> big, start |-> outer.out_start,
                                      end |-> outer.out_end, calls |-> r.calls]
                           /\ IF r.err # "none"
                              THEN /\ pc' = "raised" /\ err' = r.err
                                   /\ UNCHANGED <<gaps, ci, npass>>
                              ELSE /\ gaps' = [gaps EXCEPT ![col] =
                                                  delete_indices(gaps[col], r.del, 1)]
                                   /\ ci' = NextColumn(cols, gaps', ci)
                                   /\ npass' = IF ci' = ci THEN npass + 1 ELSE 0
                                   /\ pc' = IF ci' > Len(cols) THEN "done" ELSE "loop"
                                   /\ err' = "none"
    /\ UNCHANGED <<cols, index, args, model_, X0>>

(* Segmentation for missing runs (no duration bound) of every column of   *)
(* the frame that transform returned.                                      *)
Resegment ==
    /\ pc = "done"
    /\ out' = [col \in Range(cols) |->
                  get_series_bloc(Column(index, X, col), TRUE, TRUE,
                                  None, None, TRUE, TRUE)]
    /\ pc' = "resegmented"
    /\ UNCHANGED <<cols, index, X, args, model_, gaps, ci, npass, err, X0>>

NextFill == Fit \/ TransformStart \/ TransformStart2 \/ Pass \/ Resegment

SpecFill == InitFill /\ [][NextFill]_vars

----------------------------------------------------------------------------
(* Maximal missing runs, from the definition: a missing run is a maximal   *)
(* set of consecutive points of the uniform grid of the series at which    *)
(* the column holds no value.                                              *)

GridFrequency == get_freq_delta_or_min_time_interval(index)

Grid == {index[1] + k * GridFrequency : k \in 0 .. MaxT} \cap (0 .. index[Len(index)])

MissingAt(Xv, col, g) == g \notin Range(index) \/ Xv[col][g] = "nan"

(* The maximal missing run of column col of Xv that holds grid point t. *)
MissingRunOf(Xv, col, t) ==
    {g \in Grid : \A h \in Grid :
        ((g <= h /\ h <= t) \/ (t <= h /\ h <= g)) => MissingAt(Xv, col, h)}

MissingRunDuration(Xv, col, t) == Cardinality(MissingRunOf(Xv, col, t)) * GridFrequency

Compare(operator, d, size) ==
    CASE operator = "GTE" -> d >= size
      [] operator = "GT"  -> d > size
      [] operator = "LTE" -> d <= size
      [] operator = "LT"  -> d < size

----------------------------------------------------------------------------
(* Properties of the segmentation (SpecSeg) *)

Returned(is_null) == pc = "seg" /\ out[is_null].err = "none"

(* The timestamps of the original index of the given classification. *)
Classified(is_null) ==
    {t \in Range(index) : IF is_null THEN X["data_1"][t] = "nan"
                                     ELSE X["data_1"][t] # "nan"}

UniformGrid == \A i \in 1 .. (Len(index) - 1) : index[i + 1] - index[i] = index[2] - index[1]

Unfiltered == args.lower = None /\ args.upper = None

(* The concatenation of the pieces of a call: the member selection. *)
Members(r) == UNION {Range(r.consecutive_indices[k]) : k \in DOMAIN r.consecutive_indices}

SameBlock(r, t1, t2) ==
    \E k \in DOMAIN r.consecutive_indices :
        {t1, t2} \subseteq Range(r.consecutive_indices[k])

Neighbours(S, t1, t2) ==
    /\ t1 \in S /\ t2 \in S /\ t1 < t2
    /\ ~ \E t \in S : t1 < t /\ t < t2

(* A block made of consecutive grid points. *)
Consecutive(blk, freq) == \A i \in 1 .. (Len(blk) - 1) : blk[i + 1] - blk[i] = freq

(* C3: get_series_bloc splits the member timestamps into maximal runs of   *)
(* consecutive grid timestamps: two neighbouring members are in the same   *)
(* block if and only if they are exactly one GridFrequency apart.          *)
C3_SplitAtEveryGridGap ==
    \A is_null \in BOOLEAN :
        Returned(is_null) =>
            \A t1 \in Members(out[is_null]), t2 \in Members(out[is_null]) :
                Neighbours(Members(out[is_null]), t1, t2) =>
                    (SameBlock(out[is_null], t1, t2) <=> t2 - t1 = out[is_null].freq)

(* C4: for a series on a uniform grid with no missing value, segmentation  *)
(* for missing runs returns an empty list.                                 *)
C4_NoMissingGivesEmptyList ==
    (pc = "seg" /\ out[TRUE] # NotCalled /\ UniformGrid /\ Classified(TRUE) = {}) =>
        (out[TRUE].err = "none" /\ out[TRUE].blocks = <<>>)

(* C5: partition property: the unfiltered valid-run blocks together with   *)
(* the unfiltered missing-run blocks contain every timestamp of the        *)
(* original index exactly once and nothing else, each in a run of its own  *)
(* classification.                                                         *)
C5_Partition ==
    (pc = "seg" /\ Unfiltered /\ out[TRUE] # NotCalled /\ out[FALSE] # NotCalled) =>
        /\ out[TRUE].err = "none" /\ out[FALSE].err = "none"
        /\ \A is_null \in BOOLEAN :
              /\ UNION {Range(out[is_null].blocks[k]) : k \in DOMAIN out[is_null].blocks}
                    = Classified(is_null)
              /\ \A t \in Classified(is_null) :
                    Cardinality({k \in DOMAIN out[is_null].blocks :
                                    t \in Range(out[is_null].blocks[k])}) = 1

(* Two disjoint 1-hour missing runs separated by valid data, on an hourly  *)
(* grid.                                                                   *)
TwoOneHourGaps ==
    /\ UniformGrid /\ GridFrequency = 1
    /\ Cardinality(Classified(TRUE)) = 2
    /\ \A t \in Classified(TRUE) : MissingRunDuration(X, "data_1", t) = 1

InnerLowerTest(d) ==
    args.lower = None \/ (IF args.li THEN d >= args.lower ELSE d > args.lower)

InnerUpperTest(d) ==
    args.upper = None \/ (IF args.ui THEN d <= args.upper ELSE d < args.upper)

IsReturned(r, k) == r.consecutive_indices[k] \in Range(r.blocks)

(* C6: with select_inner=true a run is returned if and only if it passes   *)
(* both bound tests, each test honouring its own inclusivity flag (a run   *)
(* whose duration equals a bound passes that bound's test exactly when the *)
(* bound is inclusive).                                                    *)
C6_InnerSelectionHonoursInclusivity ==
    \A is_null \in BOOLEAN :
        (Returned(is_null) /\ args.select_inner) =>
            \A k \in DOMAIN out[is_null].consecutive_indices :
                IsReturned(out[is_null], k) <=>
                    (InnerLowerTest(out[is_null].durations[k])
                     /\ InnerUpperTest(out[is_null].durations[k]))

(* C6 witness: an inner selection in which a run of exactly lower_duration *)
(* is kept by an inclusive lower bound while a run of exactly              *)
(* upper_duration is dropped by an exclusive upper bound.                  *)
C6_Witness ==
    \E is_null \in BOOLEAN :
        /\ Returned(is_null) /\ args.select_inner
        /\ args.lower # None /\ args.li /\ args.upper # None /\ ~args.ui
        /\ \E k1, k2 \in DOMAIN out[is_null].consecutive_indices :
              /\ out[is_null].durations[k1] = args.lower
              /\ IsReturned(out[is_null], k1)
              /\ out[is_null].durations[k2] = args.upper
              /\ ~IsReturned(out[is_null], k2)

(* C7: with only lower_duration supplied, select_inner=false returns       *)
(* exactly the runs that fail the inner lower-bound test (the runs shorter *)
(* than lower_duration) and select_inner=true returns none of them; for    *)
(* two disjoint 1-hour missing runs separated by valid data and            *)
(* lower_duration=2h, the outer selection returns both runs as two blocks  *)
(* and the inner selection returns neither.                                *)
C7_OuterLowerOnlyReturnsShorterRuns ==
    /\ \A is_null \in BOOLEAN :
          (Returned(is_null) /\ args.lower # None /\ args.upper = None) =>
              \A k \in DOMAIN out[is_null].consecutive_indices :
                  IF args.select_inner
                  THEN ~InnerLowerTest(out[is_null].durations[k])
                           => ~IsReturned(out[is_null], k)
                  ELSE IsReturned(out[is_null], k)
                           <=> ~InnerLowerTest(out[is_null].durations[k])
    /\ (pc = "seg" /\ out[TRUE] # NotCalled /\ TwoOneHourGaps
           /\ args.lower = 2 /\ args.upper = None) =>
          /\ out[TRUE].err = "none"
          /\ out[TRUE].blocks =
                IF args.select_inner THEN <<>>
                ELSE [k \in 1 .. 2 |-> <<SortedSeq(Classified(TRUE))[k]>>]

(* C9: the duration compared against the bounds is last - first +          *)
(* GridFrequency for every run: one GridFrequency for a single-point run,  *)
(* k times GridFrequency for a run of k consecutive grid points.           *)
C9_DurationCountsSampleWidth ==
    \A is_null \in BOOLEAN :
        Returned(is_null) =>
            \A k \in DOMAIN out[is_null].consecutive_indices :
                LET blk  == out[is_null].consecutive_indices[k]
                    d    == out[is_null].durations[k]
                    freq == get_freq_delta_or_min_time_interval(index)
                IN  /\ d = blk[Len(blk)] - blk[1] + freq
                    /\ Len(blk) = 1 => d = freq
                    /\ Consecutive(blk, freq) => d = Len(blk) * freq

(* C9 witness: a call that produced a single-point run and a run of        *)
(* several consecutive grid points.                                        *)
C9_Witness ==
    \E is_null \in BOOLEAN :
        /\ Returned(is_null)
        /\ \E k1, k2 \in DOMAIN out[is_null].consecutive_indices :
              /\ Len(out[is_null].consecutive_indices[k1]) = 1
              /\ Len(out[is_null].consecutive_indices[k2]) >= 2
              /\ Consecutive(out[is_null].consecutive_indices[k2], out[is_null].freq)

(* C12: every timestamp of every block returned by segmentation is a      *)
(* timestamp of the original index: no grid point inserted by the          *)
(* re-indexing onto the uniform grid appears in a returned block.          *)
C12_BlocksWithinOriginalIndex ==
    \A is_null \in BOOLEAN :
        Returned(is_null) =>
            \A k \in DOMAIN out[is_null].blocks :
                Range(out[is_null].blocks[k]) \subseteq Range(index)

(* The maximal missing runs of the series, as sets of timestamps of the    *)
(* original index.                                                         *)
MaximalMissingRuns ==
    {MissingRunOf(X, "data_1", t) \cap Range(index) : t \in Classified(TRUE) \cap Grid}

(* The missing values of the series form exactly one contiguous run of a   *)
(* uniform grid.                                                           *)
OneContiguousMissingRun ==
    /\ UniformGrid
    /\ Classified(TRUE) # {}
    /\ \A t \in Range(index) :
          (Min(Classified(TRUE)) <= t /\ t <= Max(Classified(TRUE))) => t \in Classified(TRUE)

(* C14: with no duration bound every bound test passes and segmentation    *)
(* for missing runs returns every maximal missing run; when the missing    *)
(* values form exactly one contiguous run the result is exactly one block  *)
(* whose members are exactly the missing timestamps, of duration the       *)
(* number of missing points times GridFrequency.                           *)
C14_NoBoundReturnsEveryMissingRun ==
    (Returned(TRUE) /\ Unfiltered) =>
        /\ out[TRUE].blocks = out[TRUE].consecutive_indices
        /\ {Range(out[TRUE].blocks[k]) : k \in DOMAIN out[TRUE].blocks} = MaximalMissingRuns
        /\ Len(out[TRUE].blocks) = Cardinality(MaximalMissingRuns)
        /\ OneContiguousMissingRun =>
              /\ out[TRUE].blocks = <<SortedSeq(Classified(TRUE))>>
              /\ out[TRUE].durations = <<Cardinality(Classified(TRUE)) * GridFrequency>>

----------------------------------------------------------------------------
(* Properties of the gap mask (SpecMask) *)

(* C8: get_gaps_mask returns, for each operator of GTE, GT, LTE, LT, one   *)
(* boolean per timestamp of the series, true exactly at the timestamps     *)
(* that belong to a maximal missing run whose duration satisfies the       *)
(* operator against size.                                                  *)
C8_MaskMatchesMissingRuns ==
    (pc = "mask" /\ out # NotCalledMask /\ args.operator \in Operators) =>
        /\ out.err = "none"
        /\ DOMAIN out.mask = Range(index)
        /\ \A t \in Range(index) :
              out.mask[t] <=>
                  /\ t \in Grid
                  /\ X["data_1"][t] = "nan"
                  /\ Compare(args.operator, MissingRunDuration(X, "data_1", t), args.size)

(* C17: get_gaps_mask called with an operator other than "GTE", "GT",     *)
(* "LTE", "LT" fails with an invalid-argument error and returns no mask,   *)
(* whatever the series and the size.                                       *)
C17_InvalidOperatorRejected ==
    (pc = "mask" /\ out # NotCalledMask /\ args.operator \notin Operators) =>
        (out.err = "ValueError" /\ out.mask = <<>>)

(* C17 witness: the call was made with operator "EQ" on a series that has  *)
(* a missing run of exactly the given size.                                *)
C17_Witness ==
    /\ pc = "mask" /\ out # NotCalledMask
    /\ args.operator = "EQ"
    /\ \E t \in Classified(TRUE) \cap Grid :
          MissingRunDuration(X, "data_1", t) = args.size
    /\ out.err = "ValueError"

----------------------------------------------------------------------------
(* Properties of FillGapsAR (SpecFill) *)

(* The timestamps of column col that lie in a qualifying gap of the frame  *)
(* passed to transform: a maximal missing run whose duration d satisfies   *)
(* lower_gap_threshold <= d <= upper_gap_threshold.                        *)
QualifyingGapTimestamps(col) ==
    {t \in Range(index) \cap Grid :
        /\ X0[col][t] = "nan"
        /\ args.lower = None \/ MissingRunDuration(X0, col, t) >= args.lower
        /\ args.upper = None \/ MissingRunDuration(X0, col, t) <= args.upper}

Predictions == {"back", "fore"}

(* C1: in every pass of the per-column while loop the number of pending    *)
(* gaps of that column strictly decreases.                                 *)
C1_PendingGapsStrictlyDecrease ==
    [][(pc = "loop" /\ pc' \in {"loop", "done"}) =>
           Len(gaps'[cols[ci]]) < Len(gaps[cols[ci]])]_vars

(* C2: when transform returns normally, every qualifying gap of every      *)
(* column has been filled: each of its timestamps holds a model prediction *)
(* and the pending gap list of the column is empty.                        *)
C2_EveryQualifyingGapFilled ==
    pc = "done" =>
        \A col \in Range(cols) :
            /\ gaps[col] = <<>>
            /\ \A t \in QualifyingGapTimestamps(col) : X[col][t] \in Predictions

(* The timestamps of column col that transform filled and that had a value *)
(* present in the input on both sides.                                     *)
FilledBetweenValidData(col) ==
    {t \in Range(index) :
        /\ X0[col][t] = "nan" /\ X[col][t] \in Predictions
        /\ \E a \in Range(index), b \in Range(index) :
              a < t /\ t < b /\ X0[col][a] = "v" /\ X0[col][b] = "v"}

(* C10: round trip: after transform filled a gap bounded on both sides by  *)
(* valid data, segmentation for missing runs of the result yields no       *)
(* missing run at the filled positions.                                    *)
C10_RoundTripNoMissingRunAtFilled ==
    pc = "resegmented" =>
        \A col \in Range(cols) :
            FilledBetweenValidData(col) # {} =>
                /\ out[col].err = "none"
                /\ \A t \in FilledBetweenValidData(col) :
                      \A k \in DOMAIN out[col].blocks : t \notin Range(out[col].blocks[k])

----------------------------------------------------------------------------
(* Outer timestamps of one block: get_outer_timestamps is called on a      *)
(* block (a non-empty increasing sequence of timestamps) and the index of  *)
(* the series.                                                             *)

Blocks == {SortedSeq(S) : S \in (SUBSET Timestamps) \ {{}}}

NotCalledOuter == [out_start |-> None, out_end |-> None]

InitOuter ==
    /\ cols = <<"data_1">>
    /\ index \in Indexes
    /\ X \in [{"data_1"} -> [Range(index) -> {"nan", "v"}]]
    /\ \E blk \in Blocks : args = [idx |-> blk]
    /\ out = NotCalledOuter
    /\ pc = "outer"
    /\ model_ = "unset"
    /\ gaps = <<>>
    /\ ci = 0
    /\ npass = 0
    /\ err = "none"
    /\ X0 = X

Call_get_outer_timestamps ==
    /\ pc = "outer"
    /\ out = NotCalledOuter
    /\ out' = get_outer_timestamps(args.idx, index)
    /\ UNCHANGED <<cols, index, X, args, pc, model_, gaps, ci, npass, err, X0>>

NextOuter == Call_get_outer_timestamps

SpecOuter == InitOuter /\ [][NextOuter]_vars

----------------------------------------------------------------------------
(* Properties of get_outer_timestamps (SpecOuter) *)

CalledOuter == pc = "outer" /\ out # NotCalledOuter

First(blk) == blk[1]

Last(blk) == blk[Len(blk)]

Earlier(blk) == {r \in Range(index) : r < First(blk)}

Later(blk) == {r \in Range(index) : r > Last(blk)}

(* The block is the maximal missing run that starts at the first timestamp *)
(* of the series, and a valid timestamp follows it.                        *)
LeadingGap(blk) ==
    /\ X["data_1"][index[1]] = "nan"
    /\ Range(blk) = MissingRunOf(X, "data_1", index[1])
    /\ \E t \in Range(index) : t > Last(blk) /\ X["data_1"][t] = "v"

(* C11: get_outer_timestamps returns, without failing, the latest          *)
(* reference timestamp strictly earlier than the block's first member (the *)
(* first reference timestamp when there is none) and the earliest          *)
(* reference timestamp strictly later than its last member (the last       *)
(* reference timestamp when there is none); for the gap that starts at the *)
(* first timestamp of the series, before is the first index entry and      *)
(* after is the first valid timestamp following the run.                   *)
C11_OuterTimestamps ==
    CalledOuter =>
        LET blk == args.idx
        IN  /\ out.out_start \in Range(index) /\ out.out_end \in Range(index)
            /\ IF Earlier(blk) # {}
               THEN /\ out.out_start \in Earlier(blk)
                    /\ \A r \in Earlier(blk) : r <= out.out_start
               ELSE out.out_start = index[1]
            /\ IF Later(blk) # {}
               THEN /\ out.out_end \in Later(blk)
                    /\ \A r \in Later(blk) : out.out_end <= r
               ELSE out.out_end = index[Len(index)]
            /\ LeadingGap(blk) =>
                  /\ out.out_start = index[1]
                  /\ X["data_1"][out.out_end] = "v"
                  /\ \A t \in Range(index) :
                        (t > Last(blk) /\ X["data_1"][t] = "v") => out.out_end <= t

(* C11 witness: the call was made on the leading gap of a series, the gap  *)
(* holding several timestamps, and on a block with both an earlier and a   *)
(* later reference timestamp.                                              *)
C11_Witness ==
    /\ CalledOuter
    /\ LeadingGap(args.idx)
    /\ Len(args.idx) >= 2
    /\ out.out_start = index[1]
    /\ out.out_end = Last(args.idx) + 1

----------------------------------------------------------------------------
(* Blocks of a frame: get_data_blocks is called on a frame of two or three *)
(* columns with every argument but is_null left to its default             *)
(* (return_combination=True).                                              *)

ColumnNames == {<<"data_1", "data_2">>, <<"a", "b">>, <<"data_1", "data_2", "c">>}

NotCalledBlocks == [err |-> "notcalled", dict |-> <<>>]

InitBlocks ==
    /\ cols \in ColumnNames
    /\ index \in IndexesUpTo(MaxT - 1)
    /\ X \in [Range(cols) -> [Range(index) -> {"nan", "v"}]]
    /\ \E is_null \in BOOLEAN : args = [is_null |-> is_null, return_combination |-> TRUE]
    /\ out = NotCalledBlocks
    /\ pc = "blocks"
    /\ model_ = "unset"
    /\ gaps = <<>>
    /\ ci = 0
    /\ npass = 0
    /\ err = "none"
    /\ X0 = X

Call_get_data_blocks ==
    /\ pc = "blocks"
    /\ out = NotCalledBlocks
    /\ out' = get_data_blocks(cols, index, X, args.is_null, TRUE, None, None,
                              TRUE, TRUE, args.return_combination)
    /\ UNCHANGED <<cols, index, X, args, pc, model_, gaps, ci, npass, err, X0>>

NextBlocks == Call_get_data_blocks

SpecBlocks == InitBlocks /\ [][NextBlocks]_vars

----------------------------------------------------------------------------
(* Properties of get_data_blocks (SpecBlocks) *)

CalledBlocks == pc = "blocks" /\ out # NotCalledBlocks

(* A row in which at least one column is missing. *)
AnyMissing(t) == \E c \in Range(cols) : X[c][t] = "nan"

(* The maximal run of rows with a missing column that holds row t. *)
MissingRowRunOf(t) ==
    {u \in Range(index) : \A h \in Range(index) :
        ((u <= h /\ h <= t) \/ (t <= h /\ h <= u)) => AnyMissing(h)}

MissingRowRuns == {MissingRowRunOf(t) : t \in {u \in Range(index) : AnyMissing(u)}}

(* C13: with return_combination=True get_data_blocks succeeds for a frame  *)
(* with any column names and adds a "combination" entry computed over all  *)
(* the columns: with is_null=True its blocks are exactly the runs of rows  *)
(* in which at least one column is missing.                                *)
C13_CombinationOverAllColumns ==
    (CalledBlocks /\ args.return_combination) =>
        /\ out.err = "none"
        /\ DOMAIN out.dict = Range(cols) \cup {"combination"}
        /\ args.is_null =>
              LET blocks == out.dict["combination"]
              IN  /\ {Range(blocks[k]) : k \in DOMAIN blocks} = MissingRowRuns
                  /\ Len(blocks) = Cardinality(MissingRowRuns)

----------------------------------------------------------------------------
(* Properties of the model calls of FillGapsAR.transform (SpecFill) *)

(* The model raised in the pass that leads to the next state. *)
ModelRaisedInPass == pc = "loop" /\ \E k \in DOMAIN out'.calls : out'.calls[k].raised

(* C15: when the model raises while fitting or predicting, transform ends  *)
(* with that error (the call that raised is the last one of the pass, its  *)
(* gap is still pending, nothing runs afterwards), and nothing is rolled   *)
(* back: the predictions written in earlier passes and earlier in the pass *)
(* are still in the frame.                                                 *)
C15_ModelFailurePropagatesNoRollback ==
    [][/\ ModelRaisedInPass =>
             /\ pc' = "raised" /\ err' = "ModelFitError"
             /\ out'.calls[Len(out'.calls)].raised
             /\ \A k \in 1 .. (Len(out'.calls) - 1) :
                   /\ ~out'.calls[k].raised
                   /\ \A t \in Range(out'.calls[k].predict_at) :
                         X'[cols[ci]][t] \in Predictions
             /\ gaps' = gaps
             /\ \A c \in Range(cols) : \A t \in Range(index) :
                   X[c][t] \in Predictions => X'[c][t] = X[c][t]
       /\ pc = "raised" => (pc' = "raised" /\ X' = X)]_vars

(* C15 witness: the model raised in a pass that followed a pass of the     *)
(* same column in which a gap was filled.                                  *)
C15_Witness ==
    /\ pc = "raised" /\ err = "ModelFitError"
    /\ npass >= 1
    /\ out.calls[Len(out.calls)].raised
    /\ \E t \in Range(index) :
          /\ X0[cols[ci]][t] = "nan"
          /\ X[cols[ci]][t] \in Predictions
          /\ \A k \in DOMAIN out.calls : t \notin Range(out.calls[k].predict_at)

(* C16: a FillGapsAR whose model_name is not a key of MODEL_MAP fails with *)
(* a lookup error when fit is called, and is left without a resolved       *)
(* model: model_ is not set by that call.                                  *)
C16_UnknownModelNameFailsInFit ==
    [][(args.model_name \notin DOMAIN MODEL_MAP) =>
           /\ model_' = "unset"
           /\ pc' \in {"new", "raised"}
           /\ Fit => (pc' = "raised" /\ err' = "KeyError")]_vars

(* C16 witness: fit was called on a FillGapsAR with an unknown model name. *)
C16_Witness ==
    /\ args.model_name \notin DOMAIN MODEL_MAP
    /\ pc = "raised" /\ err = "KeyError"
    /\ model_ = "unset"

----------------------------------------------------------------------------
(* Entry of the public operations: each one is called once on an X of some *)
(* kind whose cells are (index, X); the FillGapsAR of transform has been   *)
(* fitted or not. get_outer_timestamps takes a block and the index of a    *)
(* frame.                                                                  *)

(* The functions of utils that segment or mask. *)
PureOperations == {"get_series_bloc", "get_data_blocks", "get_gaps_mask",
                   "get_outer_timestamps", "get_freq_delta_or_min_time_interval"}

Operations == PureOperations \cup {"fit", "transform"}

NotEntered == Raised("notcalled")

InitEntry ==
    /\ cols = <<"data_1">>
    /\ index \in IndexesUpTo(MaxT - 1)
    /\ X \in [{"data_1"} -> [Range(index) -> {"nan", "v"}]]
    /\ \E op \in Operations, kind \in Kinds, blk \in Blocks \cup {<<>>} :
          /\ op = "get_outer_timestamps" <=> blk # <<>>
          /\ op = "get_outer_timestamps" => kind = "DatetimeFrame"
          /\ args = [operation |-> op, kind |-> kind, idx |-> blk,
                     lower |-> None, upper |-> None, model_name |-> "STL"]
    /\ out = NotEntered
    /\ pc = "entry"
    /\ model_ \in IF args.operation = "transform" THEN {"unset", MODEL_MAP["STL"]}
                  ELSE {"unset"}
    /\ gaps = <<>>
    /\ ci = 0
    /\ npass = 0
    /\ err = "none"
    /\ X0 = X

(* A function of utils called on X: the check of the first statement, then *)
(* the body; out is the value of the body (its err names the exception it  *)
(* raised).                                                                *)
(* A variant that re-indexes the series it was passed on the grid. *)
Enter_get_series_bloc_inplace ==
    /\ pc = "entry"
    /\ args.operation = "get_series_bloc"
    /\ IF check_and_return_dt_index_df(args.kind) # "none"
       THEN /\ out' = out
            /\ err' = check_and_return_dt_index_df(args.kind)
            /\ UNCHANGED <<index, X>>
       ELSE /\ out' = get_series_bloc(Column(index, X, "data_1"), FALSE, TRUE,
                                      None, None, TRUE, TRUE)
            /\ err' = out'.err
            /\ index' = asfreq(Column(index, X, "data_1"),
                               get_freq_delta_or_min_time_interval(index)).idx
            /\ X' = [c \in {"data_1"} |->
                        asfreq(Column(index, X, "data_1"),
                               get_freq_delta_or_min_time_interval(index)).val]
    /\ pc' = IF err' = "none" THEN "returned" ELSE "raised"
    /\ UNCHANGED <<cols, args, model_, gaps, ci, npass, X0>>

Enter_get_series_bloc ==
    /\ pc = "entry"
    /\ args.operation = "get_series_bloc"
    /\ IF check_and_return_dt_index_df(args.kind) # "none"
       THEN /\ out' = out
            /\ err' = check_and_return_dt_index_df(args.kind)
       ELSE /\ out' = get_series_bloc(Column(index, X, "data_1"), FALSE, TRUE,
                                      None, None, TRUE, TRUE)
            /\ err' = out'.err
    /\ pc' = IF err' = "none" THEN "returned" ELSE "raised"
    /\ UNCHANGED <<cols, index, X, args, model_, gaps, ci, npass, X0>>

Enter_get_data_blocks ==
    /\ pc = "entry"
    /\ args.operation = "get_data_blocks"
    /\ IF check_and_return_dt_index_df(args.kind) # "none"
       THEN /\ out' = out
            /\ err' = check_and_return_dt_index_df(args.kind)
       ELSE /\ out' = get_data_blocks(cols, index, X, FALSE, TRUE, None, None,
                                      TRUE, TRUE, FALSE)
            /\ err' = out'.err
    /\ pc' = IF err' = "none" THEN "returned" ELSE "raised"
    /\ UNCHANGED <<cols, index, X, args, model_, gaps, ci, npass, X0>>

Enter_get_gaps_mask ==
    /\ pc = "entry"
    /\ args.operation = "get_gaps_mask"
    /\ IF check_and_return_dt_index_df(args.kind) # "none"
       THEN /\ out' = out
            /\ err' = check_and_return_dt_index_df(args.kind)
       ELSE /\ out' = get_gaps_mask(index, X["data_1"], "GTE", 1)
            /\ err' = out'.err
    /\ pc' = IF err' = "none" THEN "returned" ELSE "raised"
    /\ UNCHANGED <<cols, index, X, args, model_, gaps, ci, npass, X0>>

Enter_get_freq_delta_or_min_time_interval ==
    /\ pc = "entry"
    /\ args.operation = "get_freq_delta_or_min_time_interval"
    /\ IF check_and_return_dt_index_df(args.kind) # "none"
       THEN /\ out' = out
            /\ err' = check_and_return_dt_index_df(args.kind)
       ELSE /\ out' = [err |-> "none", freq |-> get_freq_delta_or_min_time_interval(index)]
            /\ err' = out'.err
    /\ pc' = IF err' = "none" THEN "returned" ELSE "raised"
    /\ UNCHANGED <<cols, index, X, args, model_, gaps, ci, npass, X0>>

Enter_get_outer_timestamps ==
    /\ pc = "entry"
    /\ args.operation = "get_outer_timestamps"
    /\ out' = get_outer_timestamps(args.idx, index)
    /\ err' = "none"
    /\ pc' = "returned"
    /\ UNCHANGED <<cols, index, X, args, model_, gaps, ci, npass, X0>>

Enter_fit ==
    /\ pc = "entry"
    /\ args.operation = "fit"
    /\ fit(args.kind)

Enter_transform ==
    /\ pc = "entry"
    /\ args.operation = "transform"
    /\ transform(args.kind, cols, index, X)

NextEntry ==
    \/ Enter_get_series_bloc
    \/ Enter_get_data_blocks
    \/ Enter_get_gaps_mask
    \/ Enter_get_freq_delta_or_min_time_interval
    \/ Enter_get_outer_timestamps
    \/ Enter_fit
    \/ Enter_transform
    \/ Pass

SpecEntry == InitEntry /\ [][NextEntry]_vars

----------------------------------------------------------------------------
(* Properties of the entry checks (SpecEntry) *)

(* The call has ended with an exception before anything was read from X    *)
(* for segmentation or written: no value, no gap list, no model, X as it   *)
(* was passed.                                                             *)
RejectedAtEntry(e) ==
    /\ pc = "raised" /\ err = e
    /\ out = NotEntered
    /\ gaps = <<>>
    /\ X = X0
    /\ args.operation = "fit" => model_ = "unset"

(* C18 as stated: each of the six operations rejects an X that is not a    *)
(* Series/DataFrame, or whose index is not a datetime index, with an       *)
(* invalid-input error raised at entry, before any cell is read for        *)
(* segmentation or written.                                                *)
C18_InvalidInputRejectedAtEntry ==
    (args.kind \in InvalidKinds /\ pc # "entry") => RejectedAtEntry("ValueError")

(* C18 amended: the same for the four functions of utils, for fit, and for *)
(* transform on a fitted FillGapsAR; transform on a FillGapsAR that has    *)
(* not been fitted fails at entry with the not-fitted error, whatever X.   *)
C18_InvalidInputRejectedAtEntryIfFitted ==
    /\ (args.kind \in InvalidKinds /\ pc # "entry") =>
          IF args.operation = "transform" /\ model_ = "unset"
          THEN RejectedAtEntry("NotFittedError")
          ELSE RejectedAtEntry("ValueError")
    /\ (args.operation = "transform" /\ model_ = "unset" /\ pc # "entry") =>
          RejectedAtEntry("NotFittedError")

(* C18 witness: transform of a fitted FillGapsAR has rejected a frame      *)
(* whose index is not a datetime index and that holds a missing value.     *)
C18_Witness ==
    /\ args.operation = "transform" /\ args.kind = "OtherIndexFrame"
    /\ model_ # "unset"
    /\ \E t \in Range(index) : X["data_1"][t] = "nan"
    /\ pc = "raised" /\ err = "ValueError"

(* C19: get_series_bloc, get_data_blocks, get_gaps_mask,                   *)
(* get_outer_timestamps and get_freq_delta_or_min_time_interval leave the  *)
(* values and the index of the series or frame passed to them unchanged;   *)
(* only FillGapsAR.transform changes the frame it works on.                *)
C19_OnlyTransformMutates ==
    [][/\ args.operation \in PureOperations =>
             (X' = X /\ index' = index /\ cols' = cols)
       /\ (X' # X \/ index' # index) =>
             (args.operation = "transform" /\ pc \in {"entry", "loop"})]_vars

(* C19 witness: get_series_bloc has returned the blocks of a series whose  *)
(* index is not a uniform grid (the re-indexed copy differs from the       *)
(* series), and the series is as it was passed.                            *)
C19_Witness ==
    /\ args.operation = "get_series_bloc"
    /\ pc = "returned"
    /\ ~UniformGrid
    /\ \E k \in DOMAIN out.blocks : Len(out.blocks[k]) >= 2
    /\ X = X0

(* transform has written predictions in the frame it was passed. *)
C19_TransformMutated ==
    /\ args.operation = "transform"
    /\ pc = "done"
    /\ \E t \in Range(index) : X0["data_1"][t] = "nan" /\ X["data_1"][t] \in Predictions

----------------------------------------------------------------------------
(* Properties of one pass of the fill loop (SpecFill) *)

(* The timestamps of the original index immediately before and after the   *)
(* block (none when the block reaches the end of the index).               *)
ImmediatelyPreceding(blk) ==
    {r \in Range(index) : r < blk[1] /\ ~ \E q \in Range(index) : r < q /\ q < blk[1]}

ImmediatelyFollowing(blk) ==
    {r \in Range(index) :
        r > blk[Len(blk)] /\ ~ \E q \in Range(index) : blk[Len(blk)] < q /\ q < r}

BackcastGap(blk, gap) == ImmediatelyPreceding(blk) \cap Range(gap) # {}

ForecastGap(blk, gap) ==
    ~BackcastGap(blk, gap) /\ ImmediatelyFollowing(blk) \cap Range(gap) # {}

(* A pass of the while loop that selected a biggest valid block and in     *)
(* which the model did not raise leads to the next state.                  *)
PassWithModel ==
    /\ pc = "loop"
    /\ err' # "IndexError"
    /\ \A k \in DOMAIN out'.calls : ~out'.calls[k].raised

(* The gap was filled in the pass, in the given mode: the model was fitted *)
(* on the data of the biggest block and asked for the timestamps of the    *)
(* gap, its predictions are in the column at exactly those timestamps, and *)
(* the gap is no longer pending.                                           *)
FilledInPass(gap, backcast) ==
    LET col == cols[ci]
    IN  /\ \E k \in DOMAIN out'.calls :
              /\ out'.calls[k].predict_at = gap
              /\ out'.calls[k].backcast = backcast
              /\ out'.calls[k].fit_on =
                    [t \in Range(out'.biggest_group) |-> X[col][t]]
        /\ Range(gap) \subseteq Range(index)
        /\ \A t \in Range(gap) : X'[col][t] = model_predict(backcast)
        /\ gap \notin Range(gaps'[col])

(* The gap was left alone in the pass. *)
UntouchedInPass(gap) ==
    LET col == cols[ci]
    IN  /\ \A k \in DOMAIN out'.calls : out'.calls[k].predict_at # gap
        /\ \A t \in Range(gap) \cap Range(index) : X'[col][t] = X[col][t]
        /\ gap \in Range(gaps'[col])

(* C20: in a pass of the fill loop a pending gap is filled in backcast     *)
(* mode if and only if it contains the timestamp immediately preceding the *)
(* selected largest valid block in the original index, and otherwise in    *)
(* forecast mode if and only if it contains the timestamp immediately      *)
(* following that block; the model is fitted on that block's data, the     *)
(* predictions are written at exactly the gap's timestamps and the gap is  *)
(* removed from the pending list; a pending gap containing neither         *)
(* timestamp is neither written nor removed in that pass.                  *)
C20_PassFillsBoundaryGaps ==
    [][PassWithModel =>
           \A i \in DOMAIN gaps[cols[ci]] :
               LET gap == gaps[cols[ci]][i]
                   blk == out'.biggest_group
               IN  /\ BackcastGap(blk, gap) => FilledInPass(gap, TRUE)
                   /\ ForecastGap(blk, gap) => FilledInPass(gap, FALSE)
                   /\ (~BackcastGap(blk, gap) /\ ~ForecastGap(blk, gap)) =>
                         UntouchedInPass(gap)]_vars

----------------------------------------------------------------------------
(* Properties of the training block of a pass (SpecFill) *)

ValidAt(Xv, col, g) == g \in Range(index) /\ Xv[col][g] # "nan"

(* The maximal valid run of column col of Xv that holds grid point t: a    *)
(* maximal set of consecutive grid points at which the column holds a      *)
(* value.                                                                  *)
ValidRunOf(Xv, col, t) ==
    {g \in Grid : \A h \in Grid :
        ((g <= h /\ h <= t) \/ (t <= h /\ h <= g)) => ValidAt(Xv, col, h)}

ValidRuns(Xv, col) == {ValidRunOf(Xv, col, t) : t \in {g \in Grid : ValidAt(Xv, col, g)}}

RunDuration(run) == Max(run) - Min(run) + GridFrequency

(* The run of maximum duration, the chronologically first one when several *)
(* share the maximum.                                                      *)
FirstLongest(runs) ==
    CHOOSE r \in runs : \A q \in runs :
        \/ RunDuration(r) > RunDuration(q)
        \/ RunDuration(r) = RunDuration(q) /\ Min(r) <= Min(q)

(* A pass of the while loop that selected a biggest valid block leads to   *)
(* the next state.                                                         *)
PassWithBlock == pc = "loop" /\ err' # "IndexError"

(* C21: in every pass of the fill loop the valid blocks are re-segmented,  *)
(* without duration filtering, from the column's current partially filled  *)
(* data (timestamps filled in earlier passes count as valid and merge with *)
(* the neighbouring valid runs), and the block selected for fitting is the *)
(* valid block of maximum duration, the chronologically first one when     *)
(* several share the maximum.                                              *)
C21_BiggestGroupIsFirstLongestValidRun ==
    [][PassWithBlock =>
           /\ Range(out'.biggest_group) \in ValidRuns(X, cols[ci])
           /\ Range(out'.biggest_group) = FirstLongest(ValidRuns(X, cols[ci]))]_vars

----------------------------------------------------------------------------
(* Properties of the outer selection (SpecSeg) *)

OuterLowerTest(d) == IF args.li THEN d <= args.lower ELSE d < args.lower

OuterUpperTest(d) == IF args.ui THEN d >= args.upper ELSE d > args.upper

(* C22: with select_inner=false and both bounds supplied, a run is         *)
(* returned if and only if its duration lies outside the window:           *)
(* duration <= lower_duration (< when lower_inclusive is false) or         *)
(* duration >= upper_duration (> when upper_inclusive is false).           *)
C22_OuterSelectionBothBounds ==
    \A is_null \in BOOLEAN :
        (Returned(is_null) /\ ~args.select_inner
             /\ args.lower # None /\ args.upper # None) =>
            \A k \in DOMAIN out[is_null].consecutive_indices :
                IsReturned(out[is_null], k) <=>
                    (OuterLowerTest(out[is_null].durations[k])
                     \/ OuterUpperTest(out[is_null].durations[k]))

(* C22 witness: an outer selection with both bounds in which a run of      *)
(* exactly upper_duration is kept by the inclusive upper bound while a run *)
(* of exactly lower_duration is dropped by the exclusive lower bound.      *)
C22_Witness ==
    \E is_null \in BOOLEAN :
        /\ Returned(is_null) /\ ~args.select_inner
        /\ args.lower # None /\ args.upper # None /\ ~args.li /\ args.ui
        /\ args.lower < args.upper
        /\ \E k1, k2 \in DOMAIN out[is_null].consecutive_indices :
              /\ out[is_null].durations[k1] = args.upper
              /\ IsReturned(out[is_null], k1)
              /\ out[is_null].durations[k2] = args.lower
              /\ ~IsReturned(out[is_null], k2)

----------------------------------------------------------------------------
(* Properties of the lists of blocks of get_data_blocks (SpecBlocks) *)

StrictlyIncreasing(blk) == \A i \in 1 .. (Len(blk) - 1) : blk[i] < blk[i + 1]

(* C23: for every column, the list of blocks returned by get_data_blocks   *)
(* is in chronological order and the blocks are pairwise disjoint: every   *)
(* timestamp of a block is strictly earlier than every timestamp of the    *)
(* next block of the list, and all the timestamps of a block share the     *)
(* requested classification on the frequency-normalized axis (all missing  *)
(* when is_null=True, all present otherwise).                              *)
C23_BlocksOrderedDisjointSameClass ==
    (CalledBlocks /\ out.err = "none") =>
        \A col \in Range(cols) :
            LET blocks == out.dict[col]
            IN  /\ \A k \in DOMAIN blocks :
                      /\ blocks[k] # <<>>
                      /\ StrictlyIncreasing(blocks[k])
                      /\ \A t \in Range(blocks[k]) :
                            IF args.is_null THEN MissingAt(X, col, t)
                                            ELSE ValidAt(X, col, t)
                /\ \A k \in 1 .. (Len(blocks) - 1) :
                      \A t1 \in Range(blocks[k]), t2 \in Range(blocks[k + 1]) : t1 < t2
                /\ \A k1, k2 \in DOMAIN blocks :
                      k1 # k2 => Range(blocks[k1]) \cap Range(blocks[k2]) = {}

(* C23 witness: the call returned, for a column, a list of two blocks for  *)
(* missing values, one of them of several timestamps.                      *)
C23_Witness ==
    /\ CalledBlocks /\ out.err = "none" /\ args.is_null
    /\ \E col \in Range(cols) :
          /\ Len(out.dict[col]) = 2
          /\ \E k \in DOMAIN out.dict[col] : Len(out.dict[col][k]) >= 2

----------------------------------------------------------------------------
(* Properties of get_freq_delta_or_min_time_interval (SpecEntry) *)

ReturnedFreq ==
    /\ args.operation = "get_freq_delta_or_min_time_interval"
    /\ pc = "returned"

(* The axis carries no consistent periodicity: fewer than three timestamps *)
(* or steps that are not all equal.                                        *)
NoPeriodicity == Len(index) < 3 \/ ~UniformGrid

(* C24: for a time axis that carries no explicit consistent periodicity,   *)
(* get_freq_delta_or_min_time_interval returns the minimum of all the      *)
(* differences between consecutive timestamps: it is the difference of two *)
(* consecutive timestamps, it is positive, and no two consecutive          *)
(* timestamps are closer together than it.                                 *)
C24_MinimumConsecutiveDifference ==
    (ReturnedFreq /\ NoPeriodicity) =>
        /\ out.err = "none"
        /\ \E i \in 1 .. (Len(index) - 1) : index[i + 1] - index[i] = out.freq
        /\ out.freq > 0
        /\ \A i \in 1 .. (Len(index) - 1) : index[i + 1] - index[i] >= out.freq

(* C24 witness: the function returned for an irregular axis whose first    *)
(* step is not the smallest one.                                           *)
C24_Witness ==
    /\ ReturnedFreq /\ NoPeriodicity
    /\ Len(index) >= 3
    /\ index[2] - index[1] > out.freq

----------------------------------------------------------------------------
(* processing.Interpolate *)

(* Series.interpolate(method) with the default limit_direction, on the     *)
(* rows `kept` of a column: a missing value that follows a present value   *)
(* of these rows receives an interpolated value ("interp"); the missing    *)
(* values before the first present value stay missing.                     *)
interpolate(kept, val) ==
    [t \in kept |->
        IF val[t] = "nan" /\ \E u \in kept : u < t /\ val[u] # "nan"
        THEN "interp" ELSE val[t]]

(* np.ones(X.shape[0]).astype(bool) *)
ones(idx) == [err |-> "none", mask |-> [t \in Range(idx) |-> TRUE]]

(* The body of `for col in X` of Interpolate.transform for one column      *)
(* (lines 754-772): err names the exception raised by get_gaps_mask, or    *)
(* val is the column after the assignment.  masks holds gt_mask, computed  *)
(* with operator "GT" against gaps_lte, and lt_mask, computed with "LT"    *)
(* against gaps_gte, each all True when its threshold is None.             *)
interpolate_column(idx, val, gaps_lte, gaps_gte) ==
    LET size(operator) == IF operator = "GT" THEN gaps_lte ELSE gaps_gte
        assign(masks) ==
            LET gt_mask == masks["GT"]
                lt_mask == masks["LT"]
            IN  IF gt_mask.err # "none" THEN [err |-> gt_mask.err, val |-> val]
                ELSE IF lt_mask.err # "none" THEN [err |-> lt_mask.err, val |-> val]
                ELSE LET gaps_to_discard ==
                             IF gaps_lte = None /\ gaps_gte = None THEN {}
                             ELSE {t \in Range(idx) : gt_mask.mask[t] /\ lt_mask.mask[t]}
                         to_be_interpolated == Range(idx) \ gaps_to_discard
                     IN  [err |-> "none",
                          val |-> [t \in Range(idx) |->
                                      IF t \in to_be_interpolated
                                      THEN interpolate(to_be_interpolated, val)[t]
                                      ELSE val[t]]]
    IN  CHOOSE r \in {assign(masks) :
                          masks \in {[operator \in {"GT", "LT"} |->
                                         IF size(operator) # None
                                         THEN get_gaps_mask(idx, val, operator, size(operator))
                                         ELSE ones(idx)]}} : TRUE

(* `for col in X` from position c on: the frame is written in place column *)
(* by column and the loop ends at the first exception.                     *)
RECURSIVE interpolate_columns(_, _, _, _, _, _)
interpolate_columns(columns, idx, Xv, gaps_lte, gaps_gte, c) ==
    IF c > Len(columns) THEN [err |-> "none", X |-> Xv]
    ELSE LET r == interpolate_column(idx, Xv[columns[c]], gaps_lte, gaps_gte)
         IN  IF r.err # "none" THEN [err |-> r.err, X |-> Xv]
             ELSE interpolate_columns(columns, idx, [Xv EXCEPT ![columns[c]] = r.val],
                                      gaps_lte, gaps_gte, c + 1)

(* An Interpolate with its thresholds, and the frame passed to transform:  *)
(* one column on a time axis of up to MaxT timestamps, or two columns on a *)
(* time axis of up to MaxT - 1 timestamps.                                 *)
InitInterp ==
    /\ \/ cols = <<"data_1">> /\ index \in Indexes
       \/ cols = <<"data_1", "data_2">> /\ index \in IndexesUpTo(MaxT - 1)
    /\ X \in [Range(cols) -> [Range(index) -> {"nan", "v"}]]
    /\ \E lte \in Thresholds, gte \in Thresholds :
          args = [gaps_lte |-> lte, gaps_gte |-> gte]
    /\ out = <<>>
    /\ pc = "interp"
    /\ model_ = "unset"
    /\ gaps = <<>>
    /\ ci = 0
    /\ npass = 0
    /\ err = "none"
    /\ X0 = X

(* Interpolate.transform: out is the frame returned, or the exception that *)
(* ended the call.                                                         *)
Interpolate_transform ==
    /\ pc = "interp"
    /\ out' = interpolate_columns(cols, index, X, args.gaps_lte, args.gaps_gte, 1)
    /\ X' = out'.X
    /\ err' = out'.err
    /\ pc' = IF err' = "none" THEN "returned" ELSE "raised"
    /\ UNCHANGED <<cols, index, args, model_, gaps, ci, npass, X0>>

NextInterp == Interpolate_transform

SpecInterp == InitInterp /\ [][NextInterp]_vars

----------------------------------------------------------------------------
(* Properties of Interpolate.transform (SpecInterp) *)

(* The gap of column col that holds the missing timestamp t of the frame   *)
(* passed is one to interpolate.                                           *)
GapToInterpolate(col, t) ==
    \/ args.gaps_lte = None /\ args.gaps_gte = None
    \/ args.gaps_lte # None /\ MissingRunDuration(X0, col, t) <= args.gaps_lte
    \/ args.gaps_gte # None /\ MissingRunDuration(X0, col, t) >= args.gaps_gte

PresentBefore(col, t) == \E u \in Range(index) : u < t /\ X0[col][u] # "nan"

(* C25: Interpolate.transform interpolates the missing values of the gaps  *)
(* whose duration is less than or equal to gaps_lte or greater than or     *)
(* equal to gaps_gte (a missing value that follows a present value of the  *)
(* column receives an interpolated value), and leaves missing the values   *)
(* of the gaps whose duration lies strictly between the two thresholds;    *)
(* when only one threshold is set only its condition selects the gaps, and *)
(* when neither is set every gap is interpolated; present values are never *)
(* changed.                                                                *)
C25_InterpolateSelectedGaps ==
    pc # "interp" =>
        /\ pc = "returned"
        /\ \A col \in Range(cols) : \A t \in Range(index) :
              /\ X0[col][t] # "nan" => X[col][t] = X0[col][t]
              /\ (X0[col][t] = "nan" /\ ~GapToInterpolate(col, t)) => X[col][t] = "nan"
              /\ (X0[col][t] = "nan" /\ GapToInterpolate(col, t) /\ PresentBefore(col, t))
                    => X[col][t] = "interp"

----------------------------------------------------------------------------
(* Properties of the cells written by FillGapsAR.transform (SpecFill) *)

(* The timestamps of the gap blocks pending for column col. *)
PendingTimestamps(col) == UNION {Range(gaps[col][i]) : i \in DOMAIN gaps[col]}

(* C26: FillGapsAR.transform writes only cells (timestamp, column) whose   *)
(* timestamp belongs to a gap block pending for that same column: the      *)
(* values present in the input, the missing values of the gaps excluded by *)
(* the thresholds and every cell of the other columns are unchanged by the *)
(* processing of a column, and the index and the column set of the frame   *)
(* are unchanged.                                                          *)
C26_WritesOnlyPendingGapCells ==
    [][pc = "loop" =>
           /\ index' = index /\ cols' = cols /\ DOMAIN X' = DOMAIN X
           /\ \A c \in Range(cols) :
                 /\ DOMAIN X'[c] = DOMAIN X[c]
                 /\ \A t \in Range(index) :
                       X'[c][t] # X[c][t] =>
                           /\ c = cols[ci]
                           /\ t \in PendingTimestamps(c)
                           /\ X0[c][t] = "nan"
                           /\ t \in QualifyingGapTimestamps(c)]_vars

----------------------------------------------------------------------------
(* Properties of the pending gap list of FillGapsAR.transform (SpecFill) *)

(* s is t with some elements removed, the others in the same order (the    *)
(* elements of t are distinct).                                            *)
SubSequence(s, t) ==
    /\ Range(s) \subseteq Range(t)
    /\ \A i, j \in DOMAIN s :
          i < j => \E a, b \in DOMAIN t : a < b /\ t[a] = s[i] /\ t[b] = s[j]

(* The pending gap was filled in the pass, in the given mode: the model    *)
(* was called for it and its predictions replaced the missing values of    *)
(* the gap.                                                                *)
GapFilledBy(gap, backcast) ==
    /\ \E k \in DOMAIN out'.calls :
          out'.calls[k].predict_at = gap /\ out'.calls[k].backcast = backcast
    /\ \A t \in Range(gap) :
          /\ t \in Range(index)
          /\ X[cols[ci]][t] = "nan"
          /\ X'[cols[ci]][t] = model_predict(backcast)

GapFilled(gap) == GapFilledBy(gap, TRUE) \/ GapFilledBy(gap, FALSE)

(* C27: during FillGapsAR.transform the pending gap list of a column only  *)
(* shrinks: no gap is added after the initial segmentation, a gap is       *)
(* removed in the same pass in which it is filled and only then, and each  *)
(* gap is filled at most once (by backcast or by forecast, never both, and *)
(* never again in a later pass: the model is only called for pending gaps  *)
(* and a prediction is never overwritten).  A pass that an exception ends  *)
(* leaves the list as it was, and no pass follows it.                      *)
C27_PendingGapsOnlyShrink ==
    [][/\ pc \in {"loop", "done", "raised", "resegmented"} =>
             \A c \in Range(cols) : SubSequence(gaps'[c], gaps[c])
       /\ pc = "loop" =>
             /\ \A c \in Range(cols) : c # cols[ci] => gaps'[c] = gaps[c]
             /\ pc' = "raised" => gaps' = gaps
             /\ \A t \in Range(index) :
                   X[cols[ci]][t] \in Predictions => X'[cols[ci]][t] = X[cols[ci]][t]
       /\ PassWithBlock =>
             /\ \A gap \in Range(gaps[cols[ci]]) :
                   /\ pc' # "raised" => (gap \notin Range(gaps'[cols[ci]]) <=> GapFilled(gap))
                   /\ ~(GapFilledBy(gap, TRUE) /\ GapFilledBy(gap, FALSE))
                   /\ Cardinality({k \in DOMAIN out'.calls :
                                      out'.calls[k].predict_at = gap}) <= 1
             /\ \A k \in DOMAIN out'.calls :
                   out'.calls[k].predict_at \in Range(gaps[cols[ci]])]_vars

(* C27 witness: after a pass of a column a gap has been filled and removed *)
(* while another gap of the column is still pending.                       *)
C27_Witness ==
    /\ pc = "loop" /\ npass >= 1
    /\ gaps[cols[ci]] # <<>>
    /\ \E k \in DOMAIN out.calls :
          /\ out.calls[k].predict_at \notin Range(gaps[cols[ci]])
          /\ \A t \in Range(out.calls[k].predict_at) : X[cols[ci]][t] \in Predictions

----------------------------------------------------------------------------
(* Properties of the training data of FillGapsAR (SpecFill) *)

(* C28: whenever FillGapsAR fits a model, the training block (the selected *)
(* largest valid block) is non-empty and contains only timestamps of the   *)
(* frame at which the column currently holds a present value (an original  *)
(* value or a previously written prediction), never a missing value.       *)
C28_TrainingBlockHoldsPresentValues ==
    [][PassWithBlock =>
           \A k \in DOMAIN out'.calls :
               /\ out'.biggest_group # <<>>
               /\ DOMAIN out'.calls[k].fit_on = Range(out'.biggest_group)
               /\ \A t \in Range(out'.biggest_group) :
                     /\ t \in Range(index)
                     /\ X[cols[ci]][t] \in {"v"} \cup Predictions
                     /\ out'.calls[k].fit_on[t] = X[cols[ci]][t]]_vars

(* C28 witness: a model was fitted on a block that holds an original value *)
(* and a prediction written in an earlier pass.                            *)
C28_Witness ==
    /\ pc \in {"loop", "done"}
    /\ \E k \in DOMAIN out.calls :
          /\ \E t \in DOMAIN out.calls[k].fit_on : out.calls[k].fit_on[t] = "v"
          /\ \E t \in DOMAIN out.calls[k].fit_on : out.calls[k].fit_on[t] \in Predictions

----------------------------------------------------------------------------
(* base.BaseFiller *)

(* BaseFiller.get_gaps_dict_to_fill: the missing blocks of every column,   *)
(* selected outside the bounds (select_inner=False) with gaps_lte as lower *)
(* and gaps_gte as upper threshold, both inclusive.                        *)
get_gaps_dict_to_fill(columns, idx, Xv, gaps_lte, gaps_gte) ==
    get_data_blocks(columns, idx, Xv, TRUE, FALSE, gaps_lte, gaps_gte, TRUE, TRUE, FALSE)

(* BaseFiller.get_gaps_mask: one boolean column per column of X, True at   *)
(* the timestamps of X.index that are in a block of gaps_dict[col], all    *)
(* False when the list is empty.                                           *)
BaseFiller_get_gaps_mask(columns, idx, Xv, gaps_lte, gaps_gte) ==
    LET gaps_dict == get_gaps_dict_to_fill(columns, idx, Xv, gaps_lte, gaps_gte)
    IN  IF gaps_dict.err # "none"
        THEN [err |-> gaps_dict.err, df_mask |-> <<>>]
        ELSE [err     |-> "none",
              df_mask |-> [col \in Range(columns) |->
                              [t \in Range(idx) |->
                                  \E k \in DOMAIN gaps_dict.dict[col] :
                                      t \in Range(gaps_dict.dict[col][k])]]]

NotCalledFiller == [err |-> "notcalled"]

(* A BaseFiller with its thresholds, and the frame passed to its methods:  *)
(* one column on a time axis of up to MaxT timestamps, or two columns on a *)
(* time axis of up to MaxT - 1 timestamps.                                 *)
InitFiller ==
    /\ \/ cols = <<"data_1">> /\ index \in Indexes
       \/ cols = <<"data_1", "data_2">> /\ index \in IndexesUpTo(MaxT - 1)
    /\ X \in [Range(cols) -> [Range(index) -> {"nan", "v"}]]
    /\ \E lte \in Thresholds, gte \in Thresholds :
          args = [gaps_lte |-> lte, gaps_gte |-> gte]
    /\ out = [gaps_dict |-> NotCalledFiller, df_mask |-> NotCalledFiller]
    /\ pc = "filler"
    /\ model_ = "unset"
    /\ gaps = <<>>
    /\ ci = 0
    /\ npass = 0
    /\ err = "none"
    /\ X0 = X

Call_get_gaps_dict_to_fill ==
    /\ pc = "filler"
    /\ out.gaps_dict = NotCalledFiller
    /\ out' = [out EXCEPT !.gaps_dict =
                  get_gaps_dict_to_fill(cols, index, X, args.gaps_lte, args.gaps_gte)]
    /\ UNCHANGED <<cols, index, X, args, pc, model_, gaps, ci, npass, err, X0>>

Call_BaseFiller_get_gaps_mask ==
    /\ pc = "filler"
    /\ out.df_mask = NotCalledFiller
    /\ out' = [out EXCEPT !.df_mask =
                  BaseFiller_get_gaps_mask(cols, index, X, args.gaps_lte, args.gaps_gte)]
    /\ UNCHANGED <<cols, index, X, args, pc, model_, gaps, ci, npass, err, X0>>

NextFiller == Call_get_gaps_dict_to_fill \/ Call_BaseFiller_get_gaps_mask

SpecFiller == InitFiller /\ [][NextFiller]_vars

----------------------------------------------------------------------------
(* Properties of BaseFiller (SpecFiller) *)

OnlyOneThreshold == (args.gaps_lte = None) # (args.gaps_gte = None)

(* The duration d is one named by the parameters when only one is set. *)
NamedDuration(d) ==
    IF args.gaps_gte = None THEN d <= args.gaps_lte ELSE d >= args.gaps_gte

(* The maximal missing runs of column col, on the grid of the series,      *)
(* whose duration is named by the parameters.                              *)
NamedMissingRuns(col) ==
    {MissingRunOf(X, col, t) :
        t \in {g \in Grid : /\ MissingAt(X, col, g)
                            /\ NamedDuration(MissingRunDuration(X, col, g))}}

(* C29: BaseFiller.get_gaps_dict_to_fill selects the gaps named by its     *)
(* parameters: with only gaps_lte set it returns exactly the missing runs  *)
(* whose duration is less than or equal to gaps_lte, with only gaps_gte    *)
(* set exactly those whose duration is greater than or equal to gaps_gte,  *)
(* and BaseFiller.get_gaps_mask is true exactly at the timestamps of the   *)
(* selected runs.                                                          *)
C29_FillerSelectsNamedGaps ==
    (pc = "filler" /\ OnlyOneThreshold) =>
        /\ out.gaps_dict # NotCalledFiller =>
              /\ out.gaps_dict.err = "none"
              /\ \A col \in Range(cols) :
                    LET blocks == out.gaps_dict.dict[col]
                    IN  /\ {Range(blocks[k]) : k \in DOMAIN blocks} = NamedMissingRuns(col)
                        /\ Len(blocks) = Cardinality(NamedMissingRuns(col))
        /\ out.df_mask # NotCalledFiller =>
              /\ out.df_mask.err = "none"
              /\ \A col \in Range(cols) : \A t \in Range(index) :
                    out.df_mask.df_mask[col][t] <=>
                        \E run \in NamedMissingRuns(col) : t \in run

----------------------------------------------------------------------------
(* Order of the calls on one FillGapsAR: fit and transform are called any  *)
(* number of times, in any order, whenever no call is running.  The caller *)
(* holds a one-column frame on a time axis of up to MaxT - 1 timestamps    *)
(* and passes to transform either the frame as it is now (transform works  *)
(* in place) or a copy of the frame as it was.                             *)

(* No call is running on the instance. *)
Idle == pc \in {"new", "fitted", "raised", "done"}

(* A FillGapsAR as constructed, and the frame of the caller. *)
InitOrder ==
    /\ cols = <<"data_1">>
    /\ index \in IndexesUpTo(MaxT - 1)
    /\ X \in [{"data_1"} -> [Range(index) -> {"nan", "v"}]]
    /\ \E lo \in Thresholds, up \in Thresholds, name \in ModelNames :
          args = [NoArgs EXCEPT !.lower = lo, !.upper = up, !.model_name = name]
    /\ out = NoPass
    /\ pc = "new"
    /\ model_ = "unset"
    /\ gaps = <<>>
    /\ ci = 0
    /\ npass = 0
    /\ err = "none"
    /\ X0 = X

Call_fit ==
    /\ Idle
    /\ fit("DatetimeFrame")

Call_transform ==
    /\ Idle
    /\ \E Xv \in {X, X0} : transform("DatetimeFrame", cols, index, Xv)

NextOrder == Call_fit \/ Call_transform \/ Pass

SpecOrder == InitOrder /\ [][NextOrder]_vars

----------------------------------------------------------------------------
(* Properties of the order of fit and transform (SpecOrder) *)

(* The step is a call of transform: from an idle instance fit leads to    *)
(* "fitted" or raises the lookup error, and transform leads to the loop,   *)
(* to the end of the loop, or raises the not-fitted error or the error of  *)
(* the segmentation.                                                       *)
TransformStep ==
    /\ Idle
    /\ \/ pc' \in {"loop", "done"}
       \/ pc' = "raised" /\ err' \in {"NotFittedError", "IndexError"}

(* C30: FillGapsAR enforces the order fit then transform: transform called *)
(* on an instance whose fit has never succeeded (model_ unset) fails with  *)
(* the not-fitted error before any gap is segmented and before any cell of *)
(* the frame is written; after a successful fit the model stays resolved   *)
(* and transform can be called any number of times without that error.     *)
C30_FitBeforeTransform ==
    [][/\ (TransformStep /\ model_ = "unset") =>
             /\ pc' = "raised" /\ err' = "NotFittedError"
             /\ gaps' = gaps /\ X' = X /\ X0' = X0 /\ out' = out
       /\ (TransformStep /\ model_ # "unset") =>
             /\ err' # "NotFittedError"
             /\ pc' \in {"loop", "done"} => (gaps' # <<>> /\ X0' = X')
       /\ model_ # "unset" => model_' = model_
       /\ (model_ = "unset" /\ model_' # "unset") => (pc' = "fitted" /\ err' = "none")
       /\ err' = "NotFittedError" => model_ = "unset"]_vars

(* C30 witness: transform was called on an instance that is not fitted,    *)
(* with a frame that holds a gap; it raised the not-fitted error, no gap   *)
(* is segmented and the frame is as it was.                                *)
C30_Witness ==
    /\ model_ = "unset"
    /\ pc = "raised" /\ err = "NotFittedError"
    /\ \E t \in Range(index) : X["data_1"][t] = "nan"
    /\ gaps = <<>>
    /\ X = X0

(* On a fitted instance transform has just segmented the gaps of a frame,  *)
(* after an earlier call of transform on the same instance made a pass     *)
(* that filled a gap.                                                      *)
C30_TransformCalledAgain ==
    /\ model_ # "unset"
    /\ pc = "loop" /\ npass = 0
    /\ X = X0
    /\ out.calls # <<>>

====
